---- MODULE Spec2Model ----
(***************************************************************************)
(* Model of the two Streamlit entry points of the repository:              *)
(*   src/app.py            remote judge (OpenAI) with local keyword rule   *)
(*   src/streamlit_app.py  local keyword rule only                         *)
(*                                                                         *)
(* A text is a sequence of characters.  Hangul syllables are written in    *)
(* romanised form ("geuk" "dan" "gap" is the keyword of app.py:376), " "   *)
(* is a blank, "A"/"a" a cased Latin letter and "x" any other character.   *)
(* One step of the session specification is one execution of the script   *)
(* from top to bottom (Streamlit re-executes the script on every user      *)
(* interaction, with at most one button reported as pressed).              *)
(***************************************************************************)
EXTENDS Integers, Sequences, FiniteSets, TLC

VARIABLES
    client,               \* app.py:130   TRUE iff init_openai() returned a client
    USE_AI,               \* app.py:131   module global, value at the end of the run
    answers_submitted,    \* app.py:216   st.session_state.answers_submitted
    ai_examples_checked,  \* app.py:218   st.session_state.ai_examples_checked
    run,                  \* what the last execution of app.py received and rendered
    errors_seen,          \* history: some earlier or current run caught a remote error
    s_answers_submitted,  \* streamlit_app.py:113
    s_ai_examples_checked,\* streamlit_app.py:115
    s_run,                \* what the last execution of streamlit_app.py rendered
    probe,                \* input of the keyword rules taken on their own
    verdict               \* result of the keyword rules taken on their own

vars == <<client, USE_AI, answers_submitted, ai_examples_checked, run, errors_seen,
          s_answers_submitted, s_ai_examples_checked, s_run, probe, verdict>>

sessionVars == <<client, USE_AI, answers_submitted, ai_examples_checked, run, errors_seen,
                 s_answers_submitted, s_ai_examples_checked, s_run>>

-----------------------------------------------------------------------------
(* Bounds of the model *)

\* a probed text is the concatenation of at most MaxPieces pieces
MaxPieces == 2

\* a remote reply is a sequence of at most MaxReplyLen phrases
MaxReplyLen == 2

-----------------------------------------------------------------------------
(* Text operations of Python used by the handlers *)

Whitespace == {" "}

\* str.lower(): only cased characters change
LowerChar(c) == IF c = "A" THEN "a" ELSE c

Lower(s) == [i \in 1..Len(s) |-> LowerChar(s[i])]

\* `kw in s` for strings: kw occurs in s as a contiguous substring
Contains(s, kw) ==
    \E i \in 0..(Len(s) - Len(kw)) :
        \A j \in 1..Len(kw) : s[i + j] = kw[j]

\* str.strip(): drop leading and trailing whitespace
RECURSIVE LStrip(_)
LStrip(s) ==
    IF s = <<>> THEN <<>>
    ELSE IF Head(s) \in Whitespace THEN LStrip(Tail(s)) ELSE s

RECURSIVE RStrip(_)
RStrip(s) ==
    IF s = <<>> THEN <<>>
    ELSE IF s[Len(s)] \in Whitespace THEN RStrip(SubSeq(s, 1, Len(s) - 1)) ELSE s

Strip(s) == RStrip(LStrip(s))

\* truthiness of a str
Truthy(s) == s # <<>>

-----------------------------------------------------------------------------
(* Keywords, written as syllable sequences *)

kw_geukdangap  == <<"geuk", "dan", "gap">>
kw_isangchi    == <<"i", "sang", "chi">>
kw_waegok      == <<"wae", "gok">>
kw_yeonghyang  == <<"yeong", "hyang">>
kw_geukdan     == <<"geuk", "dan">>
kw_manhi_pallin == <<"manh", "i", " ", "pal", "rin">>
kw_bindo       == <<"bin", "do">>
kw_jaju        == <<"ja", "ju">>
kw_heunhan     == <<"heun", "han">>
kw_goreuge     == <<"go", "reu", "ge">>
kw_gyundeung   == <<"gyun", "deung">>
kw_iljeong     == <<"il", "jeong">>
kw_biseut      == <<"bi", "seut">>
kw_pyeonggyunjeok == <<"pyeong", "gyun", "jeok">>
kw_goru        == <<"go", "ru">>
kw_bunpo       == <<"bun", "po">>
kw_twineun     == <<"twi", "neun">>
kw_chiuchyeo   == <<"chi", "u", "chyeo">>
kw_hanjjogeuro == <<"han", "jjok", "eu", "ro">>
kw_manhi       == <<"manh", "i">>
kw_ingi        == <<"in", "gi">>
kw_panmaeryang == <<"pan", "mae", "ryang">>
kw_choeda      == <<"choe", "da">>
kw_pyeonggyun  == <<"pyeong", "gyun">>
kw_junggan     == <<"jung", "gan">>

\* options of the selectbox (app.py:296): placeholder, mean, median, mode
SelectOptions == {"seontaekhaseyo", "pyeonggyun", "jungangkap", "choebinkap"}

ScenarioIds == {1, 2}

StatKeys == {"mean", "median", "mode"}

-----------------------------------------------------------------------------
(* app.py: local keyword rules *)

correct_answers ==
    [sid \in ScenarioIds |->
        IF sid = 1
        THEN [stats |-> {"jungangkap", "choebinkap"},
              keywords |-> {kw_geukdangap, kw_isangchi, kw_waegok, kw_yeonghyang, kw_geukdan}]
        ELSE [stats |-> {"choebinkap"},
              keywords |-> {kw_manhi_pallin, kw_bindo, kw_jaju, kw_heunhan}]]

analysis_rules ==
    [k \in StatKeys |->
        CASE k = "mean" ->
               [good_keywords |-> {kw_goreuge, kw_gyundeung, kw_iljeong, kw_biseut,
                                   kw_pyeonggyunjeok, kw_goru, kw_bunpo},
                bad_keywords  |-> {kw_geukdan, kw_isangchi, kw_twineun, kw_chiuchyeo, kw_bindo}]
          [] k = "median" ->
               [good_keywords |-> {kw_geukdan, kw_isangchi, kw_twineun, kw_chiuchyeo,
                                   kw_waegok, kw_hanjjogeuro},
                bad_keywords  |-> {kw_goreuge, kw_gyundeung, kw_pyeonggyunjeok, kw_bindo}]
          [] k = "mode" ->
               [good_keywords |-> {kw_manhi, kw_jaju, kw_heunhan, kw_ingi, kw_bindo,
                                   kw_panmaeryang, kw_choeda},
                bad_keywords  |-> {kw_pyeonggyun, kw_junggan, kw_gyundeung, kw_goreuge}]]

\* a rendered feedback: the widget/style used and the branch that chose it
Feedback(style, outcome, source) == [style |-> style, outcome |-> outcome, source |-> source]

Mutant_LocalScenarioRule(scenario_id, best_stat, reason) ==
    LET correct == correct_answers[scenario_id]
        has_key_reason == \E keyword \in correct.keywords : Contains(Lower(reason), keyword)
    IN  IF has_key_reason
        THEN Feedback("feedback-positive", "correct", "local")
        ELSE IF best_stat \in correct.stats
        THEN Feedback("feedback-negative", "partial", "local")
        ELSE Feedback("feedback-negative", "incorrect", "local")

LocalScenarioRule(scenario_id, best_stat, reason) ==
    LET correct == correct_answers[scenario_id]
        is_correct_stat == best_stat \in correct.stats
        has_key_reason == \E keyword \in correct.keywords : Contains(Lower(reason), keyword)
    IN  IF is_correct_stat /\ has_key_reason
        THEN Feedback("feedback-positive", "correct", "local")
        ELSE IF is_correct_stat
        THEN Feedback("feedback-negative", "partial", "local")
        ELSE Feedback("feedback-negative", "incorrect", "local")

Mutant_LocalExampleRule(stat_key, example_text) ==
    LET rule == analysis_rules[stat_key]
        lower_text == Lower(example_text)
        has_good == \E keyword \in rule.good_keywords : Contains(lower_text, keyword)
        has_bad  == \E keyword \in rule.bad_keywords : Contains(lower_text, keyword)
    IN  IF has_good /\ ~has_bad
        THEN Feedback("success", "appropriate", "local")
        ELSE IF has_bad
        THEN Feedback("info", "partial", "local")
        ELSE Feedback("warning", "inappropriate", "local")

LocalExampleRule(stat_key, example_text) ==
    LET rule == analysis_rules[stat_key]
        lower_text == Lower(example_text)
        has_good == \E keyword \in rule.good_keywords : Contains(lower_text, keyword)
        has_bad  == \E keyword \in rule.bad_keywords : Contains(lower_text, keyword)
    IN  IF has_good /\ ~has_bad
        THEN Feedback("success", "appropriate", "local")
        ELSE IF has_good
        THEN Feedback("info", "partial", "local")
        ELSE Feedback("warning", "inappropriate", "local")

-----------------------------------------------------------------------------
(* streamlit_app.py: keyword rules *)

streamlit_correct_answers ==
    [sid \in ScenarioIds |->
        IF sid = 1
        THEN [stats |-> {"jungangkap", "choebinkap"},
              keywords |-> {kw_geukdangap, kw_isangchi, kw_waegok, kw_yeonghyang, kw_geukdan}]
        ELSE [stats |-> {"choebinkap"},
              keywords |-> {kw_manhi_pallin, kw_bindo, kw_jaju, kw_heunhan}]]

streamlit_analysis_rules ==
    [k \in StatKeys |->
        CASE k = "mean" ->
               [good_keywords |-> {kw_goreuge, kw_gyundeung, kw_iljeong, kw_biseut,
                                   kw_pyeonggyunjeok, kw_goru, kw_bunpo},
                bad_keywords  |-> {kw_geukdan, kw_isangchi, kw_twineun, kw_chiuchyeo, kw_bindo}]
          [] k = "median" ->
               [good_keywords |-> {kw_geukdan, kw_isangchi, kw_twineun, kw_chiuchyeo,
                                   kw_waegok, kw_hanjjogeuro},
                bad_keywords  |-> {kw_goreuge, kw_gyundeung, kw_pyeonggyunjeok, kw_bindo}]
          [] k = "mode" ->
               [good_keywords |-> {kw_manhi, kw_jaju, kw_heunhan, kw_ingi, kw_bindo,
                                   kw_panmaeryang, kw_choeda},
                bad_keywords  |-> {kw_pyeonggyun, kw_junggan, kw_gyundeung, kw_goreuge}]]

StreamlitScenarioRule(scenario_id, best_stat, reason) ==
    LET correct == streamlit_correct_answers[scenario_id]
        is_correct_stat == best_stat \in correct.stats
        has_key_reason == \E keyword \in correct.keywords : Contains(Lower(reason), keyword)
    IN  IF is_correct_stat /\ has_key_reason
        THEN Feedback("feedback-positive", "correct", "local")
        ELSE IF is_correct_stat
        THEN Feedback("feedback-negative", "partial", "local")
        ELSE Feedback("feedback-negative", "incorrect", "local")

StreamlitExampleRule(stat_key, example_text) ==
    LET rule == streamlit_analysis_rules[stat_key]
        lower_text == Lower(example_text)
        has_good == \E keyword \in rule.good_keywords : Contains(lower_text, keyword)
        has_bad  == \E keyword \in rule.bad_keywords : Contains(lower_text, keyword)
    IN  IF has_good /\ ~has_bad
        THEN Feedback("success", "appropriate", "local")
        ELSE IF has_good
        THEN Feedback("info", "partial", "local")
        ELSE Feedback("warning", "inappropriate", "local")

-----------------------------------------------------------------------------
(* app.py: remote judge *)

\* phrases a reply of the judge is made of.  The prompts ask for a reply that
\* starts with one of three markers (app.py:333-336 and app.py:463-466);
\* "text" is any other wording.
MARK_OK    == "mark-ok"       \* the check-mark phrase, app.py:334 and app.py:464
MARK_TRY   == "mark-try"      \* the partial phrase of a scenario, app.py:335
MARK_AGAIN == "mark-again"    \* the wrong-answer phrase of a scenario, app.py:336
MARK_GOOD  == "mark-good"     \* the partial phrase of an example, app.py:465
MARK_HINT  == "mark-hint"     \* the inappropriate phrase of an example, app.py:466

ScenarioPhrases == {MARK_OK, MARK_TRY, MARK_AGAIN, "text"}
ExamplePhrases  == {MARK_OK, MARK_GOOD, MARK_HINT, "text"}

SeqsUpTo(S, n) == UNION {[1..k -> S] : k \in 0..n}

\* what client.chat.completions.create(...) and the read of
\* response.choices[0].message.content can do: raise, give None, give a text
NoCall == [status |-> "nocall", content |-> <<>>]

\* replies of the judge during a session: a failure, or a short text
Replies(phrases) ==
    {[status |-> "raise", content |-> <<>>], [status |-> "none", content |-> <<>>]}
    \cup {[status |-> "ok", content |-> <<p>>] : p \in phrases}

ScenarioReplies == Replies(ScenarioPhrases)

ExampleReplies == Replies(ExamplePhrases)

\* the try block raises: create() raised, or `marker in None` raised TypeError
Raises(reply) == reply.status \in {"raise", "none"}

ScenarioDispatch(ai_feedback) ==
    IF Contains(ai_feedback, <<MARK_OK>>)
    THEN Feedback("feedback-positive", "correct", "remote")
    ELSE IF Contains(ai_feedback, <<MARK_TRY>>)
    THEN Feedback("feedback-negative", "partial", "remote")
    ELSE Feedback("feedback-negative", "incorrect", "remote")

Mutant_ExampleDispatch(ai_response) ==
    IF Contains(ai_response, <<MARK_OK>>)
    THEN Feedback("success", "appropriate", "remote")
    ELSE Feedback("info", "partial", "remote")

ExampleDispatch(ai_response) ==
    IF Contains(ai_response, <<MARK_OK>>)
    THEN Feedback("success", "appropriate", "remote")
    ELSE IF Contains(ai_response, <<MARK_GOOD>>)
    THEN Feedback("info", "partial", "remote")
    ELSE Feedback("warning", "inappropriate", "remote")

-----------------------------------------------------------------------------
(* session state and progress *)

total_activities == 5

EmptyDict == [k \in {} |-> TRUE]

\* d[k] = True
Mutant_DictSet(d, k) ==
    IF k \in DOMAIN d THEN [x \in (DOMAIN d) \ {k} |-> TRUE]
    ELSE [x \in (DOMAIN d) \cup {k} |-> TRUE]

DictSet(d, k) == [x \in (DOMAIN d) \cup {k} |-> TRUE]

DictLen(d) == Cardinality(DOMAIN d)

Mutant_completed_activities(answers, examples) ==
    0 + DictLen(answers) + DictLen(answers) + DictLen(examples)

completed_activities(answers, examples) ==
    0 + DictLen(answers) + DictLen(examples)

\* the `if` of app.py:547
Balloons(completed) == completed = total_activities

\* progress bar, progress line and completion signal at the end of the script
ProgressCheck(answers, examples) ==
    LET completed == completed_activities(answers, examples)
    IN  [completed |-> completed,
         total     |-> total_activities,
         percent   |-> (completed * 100) \div total_activities,
         balloons  |-> Balloons(completed)]

StreamlitProgressCheck(answers, examples) ==
    LET completed == 0 + DictLen(answers) + DictLen(examples)
    IN  [completed |-> completed,
         total     |-> 5,
         percent   |-> (completed * 100) \div 5,
         balloons  |-> (completed = 5)]

-----------------------------------------------------------------------------
(* app.py: one execution of the script *)

\* USE_AI after app.py:131.  Every execution runs line 131 again, so the value
\* a previous execution left in the module global is not read.
Mutant_UseAiAtTop(cl, left_by_previous_run) == cl /\ left_by_previous_run

Mutant_UseAiAlwaysOn(cl, left_by_previous_run) == TRUE

UseAiAtTop(cl, left_by_previous_run) == cl

\* the `if` of app.py:309
ScenarioInputValid(best_stat, reason) ==
    best_stat # "seontaekhaseyo" /\ Truthy(Strip(reason))

Mutant_ExampleInputValid(example_text) == Truthy(example_text)

\* the `if` of app.py:442
ExampleInputValid(example_text) == Truthy(Strip(example_text))

\* the `if` of app.py:312 and app.py:445
TakesRemoteBranch(use_ai, cl) == use_ai /\ cl

Mutant_UseAiAfterExcept(use_ai) == use_ai

\* the assignment in the except branch, app.py:370 and app.py:490
UseAiAfterExcept(use_ai) == FALSE

\* the handler without its try/except: an error of the judge ends the
\* execution before the local rule and before the slot is marked
Mutant_ScenarioHandlerUnguarded(use_ai, cl, answers, scenario_id, best_stat, reason, reply) ==
    IF ScenarioInputValid(best_stat, reason)
    THEN LET remote == TakesRemoteBranch(use_ai, cl)
             raised == remote /\ Raises(reply)
             shown1 == IF remote /\ ~raised
                       THEN <<ScenarioDispatch(reply.content)>> ELSE <<>>
             shown2 == IF ~use_ai
                       THEN shown1 \o <<LocalScenarioRule(scenario_id, best_stat, reason)>>
                       ELSE shown1
         IN  IF raised
             THEN [USE_AI |-> use_ai,
                   answers_submitted |-> answers,
                   rendered |-> <<>>,
                   errors |-> <<"ai-error">>,
                   remote_calls |-> 1]
             ELSE [USE_AI |-> use_ai,
                   answers_submitted |-> DictSet(answers, scenario_id),
                   rendered |-> shown2,
                   errors |-> <<>>,
                   remote_calls |-> IF remote THEN 1 ELSE 0]
    ELSE [USE_AI |-> use_ai,
          answers_submitted |-> answers,
          rendered |-> <<>>,
          errors |-> <<"validation">>,
          remote_calls |-> 0]

\* the handler with the local rule run after every valid submission
Mutant_ScenarioHandlerAlwaysLocal(use_ai, cl, answers, scenario_id, best_stat, reason, reply) ==
    IF ScenarioInputValid(best_stat, reason)
    THEN LET remote   == TakesRemoteBranch(use_ai, cl)
             raised   == remote /\ Raises(reply)
             shown1   == IF remote /\ ~raised
                         THEN <<ScenarioDispatch(reply.content)>> ELSE <<>>
             errors1  == IF raised THEN <<"ai-error">> ELSE <<>>
             use_ai2  == IF raised THEN UseAiAfterExcept(use_ai) ELSE use_ai
         IN  [USE_AI |-> use_ai2,
              answers_submitted |-> DictSet(answers, scenario_id),
              rendered |-> shown1 \o <<LocalScenarioRule(scenario_id, best_stat, reason)>>,
              errors |-> errors1,
              remote_calls |-> IF remote THEN 1 ELSE 0]
    ELSE [USE_AI |-> use_ai,
          answers_submitted |-> answers,
          rendered |-> <<>>,
          errors |-> <<"validation">>,
          remote_calls |-> 0]

\* Body of `if st.button(...)` for a scenario, app.py:308-408.  use_ai is the
\* module global when the handler starts; reply is what the judge does if called.
ScenarioHandler(use_ai, cl, answers, scenario_id, best_stat, reason, reply) ==
    IF ScenarioInputValid(best_stat, reason)
    THEN LET remote   == TakesRemoteBranch(use_ai, cl)
             raised   == remote /\ Raises(reply)
             shown1   == IF remote /\ ~raised
                         THEN <<ScenarioDispatch(reply.content)>> ELSE <<>>
             errors1  == IF raised THEN <<"ai-error">> ELSE <<>>
             use_ai2  == IF raised THEN UseAiAfterExcept(use_ai) ELSE use_ai
             shown2   == IF ~use_ai2
                         THEN shown1 \o <<LocalScenarioRule(scenario_id, best_stat, reason)>>
                         ELSE shown1
         IN  [USE_AI |-> use_ai2,
              answers_submitted |-> DictSet(answers, scenario_id),
              rendered |-> shown2,
              errors |-> errors1,
              remote_calls |-> IF remote THEN 1 ELSE 0]
    ELSE [USE_AI |-> use_ai,
          answers_submitted |-> answers,
          rendered |-> <<>>,
          errors |-> <<"validation">>,
          remote_calls |-> 0]

Mutant_ExampleHandler(use_ai, cl, examples, stat_key, example_text, reply) ==
    IF ExampleInputValid(example_text)
    THEN LET remote   == TakesRemoteBranch(use_ai, cl)
             raised   == remote /\ Raises(reply)
             shown1   == IF remote /\ ~raised
                         THEN <<ExampleDispatch(reply.content)>> ELSE <<>>
             errors1  == IF raised THEN <<"ai-error">> ELSE <<>>
             use_ai2  == IF raised THEN UseAiAfterExcept(use_ai) ELSE use_ai
             shown2   == IF ~use_ai2
                         THEN shown1 \o <<LocalExampleRule(stat_key, example_text)>>
                         ELSE shown1
         IN  [USE_AI |-> use_ai2,
              ai_examples_checked |-> IF ~use_ai2 THEN DictSet(examples, stat_key)
                                      ELSE examples,
              rendered |-> shown2,
              errors |-> errors1,
              remote_calls |-> IF remote THEN 1 ELSE 0]
    ELSE [USE_AI |-> use_ai,
          ai_examples_checked |-> examples,
          rendered |-> <<>>,
          errors |-> <<"validation">>,
          remote_calls |-> 0]

\* Body of `if st.button(...)` for an example, app.py:441-525
ExampleHandler(use_ai, cl, examples, stat_key, example_text, reply) ==
    IF ExampleInputValid(example_text)
    THEN LET remote   == TakesRemoteBranch(use_ai, cl)
             raised   == remote /\ Raises(reply)
             shown1   == IF remote /\ ~raised
                         THEN <<ExampleDispatch(reply.content)>> ELSE <<>>
             errors1  == IF raised THEN <<"ai-error">> ELSE <<>>
             use_ai2  == IF raised THEN UseAiAfterExcept(use_ai) ELSE use_ai
             shown2   == IF ~use_ai2
                         THEN shown1 \o <<LocalExampleRule(stat_key, example_text)>>
                         ELSE shown1
         IN  [USE_AI |-> use_ai2,
              ai_examples_checked |-> DictSet(examples, stat_key),
              rendered |-> shown2,
              errors |-> errors1,
              remote_calls |-> IF remote THEN 1 ELSE 0]
    ELSE [USE_AI |-> use_ai,
          ai_examples_checked |-> examples,
          rendered |-> <<>>,
          errors |-> <<"validation">>,
          remote_calls |-> 0]

-----------------------------------------------------------------------------
(* streamlit_app.py: one execution of the script *)

\* streamlit_app.py:205-245
StreamlitScenarioHandler(answers, scenario_id, best_stat, reason) ==
    IF best_stat # "seontaekhaseyo" /\ Truthy(Strip(reason))
    THEN [answers_submitted |-> DictSet(answers, scenario_id),
          rendered |-> <<StreamlitScenarioRule(scenario_id, best_stat, reason)>>,
          errors |-> <<>>]
    ELSE [answers_submitted |-> answers,
          rendered |-> <<>>,
          errors |-> <<"validation">>]

\* streamlit_app.py:278-315
StreamlitExampleHandler(examples, stat_key, example_text) ==
    IF Truthy(Strip(example_text))
    THEN [ai_examples_checked |-> DictSet(examples, stat_key),
          rendered |-> <<StreamlitExampleRule(stat_key, example_text)>>,
          errors |-> <<>>]
    ELSE [ai_examples_checked |-> examples,
          rendered |-> <<>>,
          errors |-> <<"validation">>]

-----------------------------------------------------------------------------
(* the session: user interactions *)

\* texts the user types into a text area during a session
SessionTexts ==
    { <<>>, <<" ">>, kw_isangchi, <<"A">> \o kw_bindo, kw_goreuge,
      kw_goreuge \o <<" ">> \o kw_bindo }

NoInput == [button |-> "none", scenario_id |-> 0, stat_key |-> "",
            best_stat |-> "", text |-> <<>>]

\* what an execution of app.py leaves to observe
RunRecord(input, reply, rendered, errors, remote_calls, display) ==
    [input |-> input, reply |-> reply, rendered |-> rendered, errors |-> errors,
     remote_calls |-> remote_calls, display |-> display]

StreamlitRunRecord(rendered, errors, display) ==
    [rendered |-> rendered, errors |-> errors, display |-> display]

\* the judge is consulted only when the handler reaches the call
RepliesWhen(called, replies) == IF called THEN replies ELSE {NoCall}

NoProbe == [kind |-> "none", scenario_id |-> 0, stat_key |-> "",
            best_stat |-> "", text |-> <<>>]

NoVerdict == Feedback("", "", "")

Init ==
    /\ client \in BOOLEAN
    /\ USE_AI = UseAiAtTop(client, TRUE)
    /\ answers_submitted = EmptyDict
    /\ ai_examples_checked = EmptyDict
    /\ run = RunRecord(NoInput, NoCall, <<>>, <<>>, 0, ProgressCheck(EmptyDict, EmptyDict))
    /\ errors_seen = FALSE
    /\ s_answers_submitted = EmptyDict
    /\ s_ai_examples_checked = EmptyDict
    /\ s_run = StreamlitRunRecord(<<>>, <<>>, StreamlitProgressCheck(EmptyDict, EmptyDict))
    /\ probe = NoProbe
    /\ verdict = [app |-> NoVerdict, streamlit |-> NoVerdict]

\* app.py executed with the submit button of scenario_id pressed
AppSubmitScenario(scenario_id, best_stat, reason, reply) ==
    \E h \in {ScenarioHandler(UseAiAtTop(client, USE_AI), client, answers_submitted, scenario_id, best_stat, reason, reply)} :
    LET inp == [button |-> "submit", scenario_id |-> scenario_id, stat_key |-> "",
                best_stat |-> best_stat, text |-> reason]
    IN  /\ USE_AI' = h.USE_AI
        /\ answers_submitted' = h.answers_submitted
        /\ ai_examples_checked' = ai_examples_checked
        /\ run' = RunRecord(inp, IF h.remote_calls > 0 THEN reply ELSE NoCall,
                            h.rendered, h.errors, h.remote_calls,
                            ProgressCheck(h.answers_submitted, ai_examples_checked))
        /\ errors_seen' = (errors_seen \/ h.errors = <<"ai-error">>)
        /\ client' = client

\* app.py executed with the check button of stat_key pressed
AppCheckExample(stat_key, example_text, reply) ==
    \E h \in {ExampleHandler(UseAiAtTop(client, USE_AI), client, ai_examples_checked, stat_key, example_text, reply)} :
    LET inp == [button |-> "check", scenario_id |-> 0, stat_key |-> stat_key,
                best_stat |-> "", text |-> example_text]
    IN  /\ USE_AI' = h.USE_AI
        /\ answers_submitted' = answers_submitted
        /\ ai_examples_checked' = h.ai_examples_checked
        /\ run' = RunRecord(inp, IF h.remote_calls > 0 THEN reply ELSE NoCall,
                            h.rendered, h.errors, h.remote_calls,
                            ProgressCheck(answers_submitted, h.ai_examples_checked))
        /\ errors_seen' = (errors_seen \/ h.errors = <<"ai-error">>)
        /\ client' = client

\* app.py executed with no button pressed (a widget was edited)
AppRerun ==
    /\ USE_AI' = UseAiAtTop(client, USE_AI)
    /\ run' = RunRecord(NoInput, NoCall, <<>>, <<>>, 0,
                        ProgressCheck(answers_submitted, ai_examples_checked))
    /\ UNCHANGED <<client, answers_submitted, ai_examples_checked, errors_seen>>

StreamlitSubmitScenario(scenario_id, best_stat, reason) ==
    \E h \in {StreamlitScenarioHandler(s_answers_submitted, scenario_id, best_stat, reason)} :
        /\ s_answers_submitted' = h.answers_submitted
        /\ s_ai_examples_checked' = s_ai_examples_checked
        /\ s_run' = StreamlitRunRecord(h.rendered, h.errors,
                        StreamlitProgressCheck(h.answers_submitted, s_ai_examples_checked))

StreamlitCheckExample(stat_key, example_text) ==
    \E h \in {StreamlitExampleHandler(s_ai_examples_checked, stat_key, example_text)} :
        /\ s_answers_submitted' = s_answers_submitted
        /\ s_ai_examples_checked' = h.ai_examples_checked
        /\ s_run' = StreamlitRunRecord(h.rendered, h.errors,
                        StreamlitProgressCheck(s_answers_submitted, h.ai_examples_checked))

StreamlitRerun ==
    /\ s_run' = StreamlitRunRecord(<<>>, <<>>,
                    StreamlitProgressCheck(s_answers_submitted, s_ai_examples_checked))
    /\ UNCHANGED <<s_answers_submitted, s_ai_examples_checked>>

\* The same user interaction given to both entry points.
SubmitScenario ==
    \E scenario_id \in ScenarioIds, best_stat \in SelectOptions, reason \in SessionTexts :
        \E reply \in RepliesWhen(ScenarioInputValid(best_stat, reason)
                                 /\ TakesRemoteBranch(UseAiAtTop(client, USE_AI), client),
                                 ScenarioReplies) :
            /\ AppSubmitScenario(scenario_id, best_stat, reason, reply)
            /\ StreamlitSubmitScenario(scenario_id, best_stat, reason)
            /\ UNCHANGED <<probe, verdict>>

CheckExample ==
    \E stat_key \in StatKeys, example_text \in SessionTexts :
        \E reply \in RepliesWhen(ExampleInputValid(example_text)
                                 /\ TakesRemoteBranch(UseAiAtTop(client, USE_AI), client),
                                 ExampleReplies) :
            /\ AppCheckExample(stat_key, example_text, reply)
            /\ StreamlitCheckExample(stat_key, example_text)
            /\ UNCHANGED <<probe, verdict>>

Rerun ==
    /\ AppRerun
    /\ StreamlitRerun
    /\ UNCHANGED <<probe, verdict>>

Next == SubmitScenario \/ CheckExample \/ Rerun

Spec == Init /\ [][Next]_vars

-----------------------------------------------------------------------------
(* calculate_stats.  Values with one decimal are held in tenths: 65 is 6.5. *)

\* scenarios[...]['data'], app.py:240 and app.py:246
scenario_data ==
    [sid \in ScenarioIds |->
        IF sid = 1 THEN <<4, 5, 6, 6, 6, 7, 7, 23>>
        ELSE <<250, 250, 250, 260, 260, 270, 280>>]

streamlit_scenario_data ==
    [sid \in ScenarioIds |->
        IF sid = 1 THEN <<4, 5, 6, 6, 6, 7, 7, 23>>
        ELSE <<250, 250, 250, 260, 260, 270, 280>>]

RECURSIVE SumSeq(_)
SumSeq(data) == IF data = <<>> THEN 0 ELSE Head(data) + SumSeq(Tail(data))

\* round(x, 1) of the quotient num / den, in tenths; a tie goes to the even digit
RoundTenths(num, den) ==
    LET q == (10 * num) \div den
        r == (10 * num) % den
    IN  IF 2 * r < den THEN q
        ELSE IF 2 * r > den THEN q + 1
        ELSE IF q % 2 = 0 THEN q ELSE q + 1

RECURSIVE Insert(_, _)
Insert(x, sorted) ==
    IF sorted = <<>> THEN <<x>>
    ELSE IF x <= Head(sorted) THEN <<x>> \o sorted
    ELSE <<Head(sorted)>> \o Insert(x, Tail(sorted))

RECURSIVE SortedData(_)
SortedData(data) == IF data = <<>> THEN <<>> ELSE Insert(Head(data), SortedData(Tail(data)))

\* np.median, in tenths: the middle element, or the mean of the two middle ones
MedianTenths(data) ==
    LET sorted == SortedData(data)
        n == Len(sorted)
    IN  IF n % 2 = 1 THEN 10 * sorted[(n + 1) \div 2]
        ELSE 5 * (sorted[n \div 2] + sorted[n \div 2 + 1])

CountOf(data, x) == Cardinality({i \in 1..Len(data) : data[i] = x})

Mutant_MostCommon(data) ==
    LET best == CHOOSE i \in 1..Len(data) :
                    /\ \A j \in 1..Len(data) : CountOf(data, data[j]) <= CountOf(data, data[i])
                    /\ \A j \in 1..(i - 1) : CountOf(data, data[j]) < CountOf(data, data[i])
    IN  CountOf(data, data[best])

\* Counter(data).most_common(1)[0][0]: the value counted most often, the one
\* met first in data among equals
MostCommon(data) ==
    LET best == CHOOSE i \in 1..Len(data) :
                    /\ \A j \in 1..Len(data) : CountOf(data, data[j]) <= CountOf(data, data[i])
                    /\ \A j \in 1..(i - 1) : CountOf(data, data[j]) < CountOf(data, data[i])
    IN  data[best]

calculate_stats(data) ==
    [mean   |-> RoundTenths(SumSeq(data), Len(data)),
     median |-> MedianTenths(data),
     mode   |-> MostCommon(data)]

streamlit_calculate_stats(data) ==
    [mean   |-> RoundTenths(SumSeq(data), Len(data)),
     median |-> MedianTenths(data),
     mode   |-> MostCommon(data)]

-----------------------------------------------------------------------------
(* the keyword rules and the marker dispatch taken on their own *)

\* pieces a probed text is put together from: every keyword of the tables,
\* parts of keywords, a blank, a cased letter and another character
Pieces ==
    UNION {correct_answers[sid].keywords : sid \in ScenarioIds}
    \cup UNION {analysis_rules[k].good_keywords \cup analysis_rules[k].bad_keywords : k \in StatKeys}
    \cup { <<" ">>, <<"A">>, <<"x">>, <<"geuk">>, <<"dan">>, <<"jeok">>, <<"deung">>,
           <<"u", "chyeo">> }

RECURSIVE TextsOf(_)
TextsOf(n) ==
    IF n = 0 THEN { <<>> }
    ELSE LET shorter == TextsOf(n - 1)
         IN  shorter \cup {t \o p : t \in shorter, p \in Pieces}

ProbeTexts == TextsOf(MaxPieces)

ProbeReplies(phrases) == SeqsUpTo(phrases, MaxReplyLen)

RealLabels == SelectOptions \ {"seontaekhaseyo"}

BothVerdicts(app, streamlit) == [app |-> app, streamlit |-> streamlit]

RuleInit ==
    /\ client = FALSE
    /\ USE_AI = UseAiAtTop(client, TRUE)
    /\ answers_submitted = EmptyDict
    /\ ai_examples_checked = EmptyDict
    /\ run = RunRecord(NoInput, NoCall, <<>>, <<>>, 0, ProgressCheck(EmptyDict, EmptyDict))
    /\ errors_seen = FALSE
    /\ s_answers_submitted = EmptyDict
    /\ s_ai_examples_checked = EmptyDict
    /\ s_run = StreamlitRunRecord(<<>>, <<>>, StreamlitProgressCheck(EmptyDict, EmptyDict))
    /\ verdict = BothVerdicts(NoVerdict, NoVerdict)
    /\ \/ \E sid \in ScenarioIds, label \in RealLabels, text \in ProbeTexts :
            probe = [kind |-> "scenario", scenario_id |-> sid, stat_key |-> "",
                     best_stat |-> label, text |-> text]
       \/ \E k \in StatKeys, text \in ProbeTexts :
            probe = [kind |-> "example", scenario_id |-> 0, stat_key |-> k,
                     best_stat |-> "", text |-> text]
       \/ \E reply \in ProbeReplies(ScenarioPhrases) :
            probe = [kind |-> "scenario-reply", scenario_id |-> 0, stat_key |-> "",
                     best_stat |-> "", text |-> reply]
       \/ \E reply \in ProbeReplies(ExamplePhrases) :
            probe = [kind |-> "example-reply", scenario_id |-> 0, stat_key |-> "",
                     best_stat |-> "", text |-> reply]
       \/ \E sid \in ScenarioIds :
            probe = [kind |-> "stats", scenario_id |-> sid, stat_key |-> "",
                     best_stat |-> "", text |-> <<>>]

Unjudged == verdict = BothVerdicts(NoVerdict, NoVerdict)

EvaluateScenario ==
    /\ probe.kind = "scenario" /\ Unjudged
    /\ verdict' = BothVerdicts(
            LocalScenarioRule(probe.scenario_id, probe.best_stat, probe.text),
            StreamlitScenarioRule(probe.scenario_id, probe.best_stat, probe.text))
    /\ UNCHANGED <<sessionVars, probe>>

ClassifyExample ==
    /\ probe.kind = "example" /\ Unjudged
    /\ verdict' = BothVerdicts(
            LocalExampleRule(probe.stat_key, probe.text),
            StreamlitExampleRule(probe.stat_key, probe.text))
    /\ UNCHANGED <<sessionVars, probe>>

DispatchScenarioReply ==
    /\ probe.kind = "scenario-reply" /\ Unjudged
    /\ verdict' = BothVerdicts(ScenarioDispatch(probe.text), NoVerdict)
    /\ UNCHANGED <<sessionVars, probe>>

DispatchExampleReply ==
    /\ probe.kind = "example-reply" /\ Unjudged
    /\ verdict' = BothVerdicts(ExampleDispatch(probe.text), NoVerdict)
    /\ UNCHANGED <<sessionVars, probe>>

\* stats = calculate_stats(scenario['data']), app.py:278 and streamlit_app.py:175
CalculateStats ==
    /\ probe.kind = "stats" /\ Unjudged
    /\ verdict' = BothVerdicts(
            calculate_stats(scenario_data[probe.scenario_id]),
            streamlit_calculate_stats(streamlit_scenario_data[probe.scenario_id]))
    /\ UNCHANGED <<sessionVars, probe>>

RuleNext ==
    \/ EvaluateScenario
    \/ ClassifyExample
    \/ DispatchScenarioReply
    \/ DispatchExampleReply
    \/ CalculateStats

SpecRule == RuleInit /\ [][RuleNext]_vars

-----------------------------------------------------------------------------
(* Vocabulary of the properties *)

\* the text is empty once leading and trailing blanks are removed
BlankText(t) == \A i \in 1..Len(t) : t[i] \in Whitespace

\* the text holds one of the keywords, as it was typed
HoldsOneOf(t, keywords) == \E kw \in keywords : Contains(t, kw)

AcceptableLabels(sid) ==
    IF sid = 1 THEN {"jungangkap", "choebinkap"} ELSE {"choebinkap"}

ScenarioOutcomeIs(v, sid, label, t) ==
    LET label_ok == label \in AcceptableLabels(sid)
        kw_ok    == HoldsOneOf(t, correct_answers[sid].keywords)
    IN  /\ v.outcome \in {"correct", "partial", "incorrect"}
        /\ v.outcome = "correct"   <=> (label_ok /\ kw_ok)
        /\ v.outcome = "partial"   <=> (label_ok /\ ~kw_ok)
        /\ v.outcome = "incorrect" <=> ~label_ok

ExampleOutcomeIs(v, k, t) ==
    LET good == HoldsOneOf(t, analysis_rules[k].good_keywords)
        bad  == HoldsOneOf(t, analysis_rules[k].bad_keywords)
    IN  /\ v.outcome \in {"appropriate", "partial", "inappropriate"}
        /\ v.outcome = "appropriate"   <=> (good /\ ~bad)
        /\ v.outcome = "partial"       <=> (good /\ bad)
        /\ v.outcome = "inappropriate" <=> ~good

\* the last execution of app.py was a button press with inputs that pass validation
ValidScenarioSubmission(r) ==
    /\ r.input.button = "submit"
    /\ r.input.best_stat # "seontaekhaseyo"
    /\ ~BlankText(r.input.text)

ValidExampleCheck(r) ==
    /\ r.input.button = "check"
    /\ ~BlankText(r.input.text)

InvalidPress(r) ==
    \/ r.input.button = "submit"
       /\ (r.input.best_stat = "seontaekhaseyo" \/ BlankText(r.input.text))
    \/ r.input.button = "check" /\ BlankText(r.input.text)

CompletedCount == DictLen(answers_submitted) + DictLen(ai_examples_checked)

StreamlitCompletedCount == DictLen(s_answers_submitted) + DictLen(s_ai_examples_checked)

RemoteFailed(r) == r.remote_calls = 1 /\ r.reply.status \in {"raise", "none"}

-----------------------------------------------------------------------------
(* C1 *)

\* C1: for every scenario, every real label and every non-empty reason, the
\* keyword rule of both entry points gives exactly one of correct / partial /
\* incorrect: correct iff the label is acceptable for the scenario (1: median
\* or mode, 2: mode) and the reason holds a keyword of the scenario; partial iff
\* the label is acceptable and no keyword is held; incorrect iff the label is
\* not acceptable.
C1_LocalScenarioEvaluation ==
    (probe.kind = "scenario" /\ ~Unjudged /\ Truthy(probe.text)) =>
        /\ ScenarioOutcomeIs(verdict.app, probe.scenario_id, probe.best_stat, probe.text)
        /\ ScenarioOutcomeIs(verdict.streamlit, probe.scenario_id, probe.best_stat, probe.text)

\* median chosen for scenario 1 with a reason holding a capital letter and the
\* keyword i-sang-chi: judged correct
C1_Witness ==
    /\ probe.kind = "scenario" /\ probe.scenario_id = 1
    /\ probe.best_stat = "jungangkap"
    /\ probe.text = <<"A">> \o kw_isangchi
    /\ verdict.app.outcome = "correct"
    /\ verdict.streamlit.outcome = "correct"

(* C2 *)

\* C2: for every statistic type and every non-empty example, the keyword rule
\* of both entry points gives exactly one of appropriate / partial /
\* inappropriate: appropriate iff a good keyword and no bad keyword of the type
\* is held; partial iff a good and a bad keyword are held; inappropriate iff no
\* good keyword is held.  The good and the bad keywords of a type are disjoint.
C2_LocalExampleClassification ==
    /\ \A k \in StatKeys :
          /\ analysis_rules[k].good_keywords \cap analysis_rules[k].bad_keywords = {}
          /\ streamlit_analysis_rules[k].good_keywords
                \cap streamlit_analysis_rules[k].bad_keywords = {}
    /\ (probe.kind = "example" /\ ~Unjudged /\ Truthy(probe.text)) =>
          /\ ExampleOutcomeIs(verdict.app, probe.stat_key, probe.text)
          /\ ExampleOutcomeIs(verdict.streamlit, probe.stat_key, probe.text)

\* an example for the mean holding go-reu-ge (good) and bin-do (bad): partial
C2_Witness ==
    /\ probe.kind = "example" /\ probe.stat_key = "mean"
    /\ probe.text = kw_goreuge \o kw_bindo
    /\ verdict.app.outcome = "partial"
    /\ verdict.streamlit.outcome = "partial"


(* C3 *)

\* C3: when a credential is present and the judge call of a valid submission
\* raises, the same execution shows the error notice, renders exactly the
\* classification the local keyword rule gives for the same inputs, and runs
\* to the end of the handler (the slot is marked).
C3_RemoteFailureFallsBack ==
    RemoteFailed(run) =>
        /\ client
        /\ run.errors = <<"ai-error">>
        /\ \/ /\ ValidScenarioSubmission(run)
              /\ run.rendered = <<LocalScenarioRule(run.input.scenario_id,
                                                      run.input.best_stat, run.input.text)>>
              /\ run.input.scenario_id \in DOMAIN answers_submitted
           \/ /\ ValidExampleCheck(run)
              /\ run.rendered = <<LocalExampleRule(run.input.stat_key, run.input.text)>>
              /\ run.input.stat_key \in DOMAIN ai_examples_checked

\* the judge raised while scenario 1 was submitted with mode and the keyword
\* i-sang-chi: the local rule's "correct" is rendered in that execution
C3_Witness ==
    /\ RemoteFailed(run)
    /\ run.input.button = "submit" /\ run.input.scenario_id = 1
    /\ run.input.best_stat = "choebinkap" /\ run.input.text = kw_isangchi
    /\ Len(run.rendered) = 1
    /\ run.rendered[1].outcome = "correct" /\ run.rendered[1].source = "local"

(* C4 *)

\* C4: with a credential, once some execution has caught a judge error, every
\* later execution that handles a valid submission still calls the judge: the
\* USE_AI = False of the except branch does not outlive its execution.
C4_FallbackIsPerCall ==
    [][ (client /\ errors_seen
         /\ (ValidScenarioSubmission(run') \/ ValidExampleCheck(run')))
        => run'.remote_calls = 1 ]_vars

\* an execution after a judge error in which the judge was called and answered
C4_Witness ==
    /\ errors_seen
    /\ ValidExampleCheck(run)
    /\ run.remote_calls = 1 /\ run.reply.status = "ok"
    /\ run.errors = <<>>
    /\ Len(run.rendered) = 1 /\ run.rendered[1].source = "remote"

(* C5 *)

\* C5: without a credential app.py never calls the judge, and after every
\* sequence of interactions what it rendered, the errors it showed, its two
\* progress maps and its progress display equal those of streamlit_app.py
\* given the same sequence.
C5_NoCredentialEqualsLocalOnly ==
    ~client =>
        /\ run.remote_calls = 0
        /\ run.reply = NoCall
        /\ run.rendered = s_run.rendered
        /\ run.errors = s_run.errors
        /\ answers_submitted = s_answers_submitted
        /\ ai_examples_checked = s_ai_examples_checked
        /\ run.display = s_run.display

\* no credential, an example for the mode judged by both programs, two slots done
C5_Witness ==
    /\ ~client
    /\ run.input.button = "check" /\ run.input.stat_key = "mode"
    /\ Len(run.rendered) = 1 /\ run.rendered[1].outcome = "appropriate"
    /\ s_run.rendered = run.rendered
    /\ CompletedCount = 2

(* C6 *)

\* C6: a press with the placeholder label, or with a text that is empty after
\* trimming, shows the validation error, renders no classification, calls no
\* judge and leaves both progress maps as they were.
C6_InvalidSubmissionChangesNothing ==
    [][ InvalidPress(run') =>
          /\ run'.errors = <<"validation">>
          /\ run'.rendered = <<>>
          /\ run'.remote_calls = 0
          /\ answers_submitted' = answers_submitted
          /\ ai_examples_checked' = ai_examples_checked ]_vars

\* a check pressed with a text of one blank, with a credential present
C6_Witness ==
    /\ client
    /\ run.input.button = "check" /\ run.input.text = <<" ">>
    /\ run.errors = <<"validation">>
    /\ run.input.stat_key \notin DOMAIN ai_examples_checked

(* C7 *)

\* C7: after every valid submission the slot is in its progress map, whatever
\* the outcome and whether it came from the judge, from the fallback or from
\* the local rule.
C7_ValidSubmissionMarksSlot ==
    /\ ValidScenarioSubmission(run) => run.input.scenario_id \in DOMAIN answers_submitted
    /\ ValidExampleCheck(run) => run.input.stat_key \in DOMAIN ai_examples_checked

\* the judge answered with the inappropriate marker and the slot is marked
C7_Witness ==
    /\ ValidExampleCheck(run)
    /\ run.reply.status = "ok"
    /\ Len(run.rendered) = 1
    /\ run.rendered[1].outcome = "inappropriate" /\ run.rendered[1].source = "remote"
    /\ run.input.stat_key \in DOMAIN ai_examples_checked

(* C8 *)

C9_CountBoundedAndMonotone ==
    /\ [] /\ DOMAIN answers_submitted \subseteq {1, 2}
          /\ DOMAIN ai_examples_checked \subseteq {"mean", "median", "mode"}
          /\ run.display.completed = CompletedCount
          /\ run.display.completed \in 0..5
    /\ [][ run'.display.completed >= run.display.completed ]_vars

\* three slots are completed
C9_Witness ==
    /\ run.display.completed = 3
    /\ DOMAIN answers_submitted = {2}
    /\ DOMAIN ai_examples_checked = {"mean", "mode"}

(* C10 *)

ShowsRatio(d, n, pct) == d.completed = n /\ d.total = 5 /\ d.percent = pct

\* C10 as stated: 0/5 (0%) at the start, no completion signal below five, 5/5
\* (100%) once all five slots are complete, and the completion signal not
\* given again by an execution that follows one that gave it.
C10_Original ==
    /\ ShowsRatio(run.display, 0, 0) /\ ShowsRatio(s_run.display, 0, 0)
    /\ [] (run.display.balloons => CompletedCount = 5)
    /\ [] (CompletedCount = 5 => ShowsRatio(run.display, 5, 100))
    /\ [][ run.display.balloons => ~run'.display.balloons ]_vars

\* What the scripts do instead: an execution gives the completion signal
\* exactly when it ends with all five slots complete, showing 5/5 (100%); so
\* the signal is given by the execution that completes the fifth slot and again
\* by every later execution of the session.
CompletionSignalEveryRunAtFive ==
    /\ ShowsRatio(run.display, 0, 0) /\ ShowsRatio(s_run.display, 0, 0)
    /\ [] /\ run.display.balloons <=> CompletedCount = 5
          /\ s_run.display.balloons <=> StreamlitCompletedCount = 5
          /\ CompletedCount = 5 => ShowsRatio(run.display, 5, 100)
          /\ StreamlitCompletedCount = 5 => ShowsRatio(s_run.display, 5, 100)
    /\ [][ run.display.balloons => run'.display.balloons ]_vars
    /\ [][ s_run.display.balloons => s_run'.display.balloons ]_vars

\* all five slots complete, and an execution without any button pressed gives
\* the completion signal
CompletionSignalRepeated ==
    /\ CompletedCount = 5
    /\ run.input.button = "none"
    /\ run.display.balloons /\ s_run.display.balloons
    /\ ShowsRatio(run.display, 5, 100)


(* C11 *)

StatsJudged(sid) == probe.kind = "stats" /\ probe.scenario_id = sid /\ ~Unjudged

\* C11 as stated: calculate_stats on the data of scenario 1,
\* [4,5,6,6,6,7,7,23], returns mean 6.5, median 6.0 and mode 6.
C11_Original ==
    StatsJudged(1) =>
        /\ verdict.app.mean = 65
        /\ verdict.app.median = 60
        /\ verdict.app.mode = 6

\* C11 as amended: calculate_stats of both scripts on [4,5,6,6,6,7,7,23]
\* returns mean 8.0 (64 / 8, rounded to one decimal), median 6.0 and mode 6.
C11_StatsOfScenario1 ==
    StatsJudged(1) =>
        /\ verdict.app = [mean |-> 80, median |-> 60, mode |-> 6]
        /\ verdict.streamlit = [mean |-> 80, median |-> 60, mode |-> 6]

\* the statistics of scenario 1 have been computed from its eight values
C11_Witness ==
    /\ StatsJudged(1)
    /\ Len(scenario_data[1]) = 8 /\ SumSeq(scenario_data[1]) = 64
    /\ verdict.app.mean = 80


(* C12 *)

BeginsWith(reply, marker) == Len(reply) >= 1 /\ reply[1] = marker

ReplyJudged(kind) == probe.kind = kind /\ ~Unjudged

\* C12: the leading marker of a judge reply decides the outcome: correct /
\* appropriate only if the reply begins with the check-mark marker, partial only
\* if it begins with the partial marker of its handler, and a reply that begins
\* with the wrong-answer / inappropriate marker gets the least favourable
\* outcome whatever follows in it.
C12_LeadingMarkerDecides ==
    /\ ReplyJudged("scenario-reply") =>
          /\ verdict.app.outcome = "correct" => BeginsWith(probe.text, MARK_OK)
          /\ verdict.app.outcome = "partial" => BeginsWith(probe.text, MARK_TRY)
          /\ BeginsWith(probe.text, MARK_AGAIN) => verdict.app.outcome = "incorrect"
    /\ ReplyJudged("example-reply") =>
          /\ verdict.app.outcome = "appropriate" => BeginsWith(probe.text, MARK_OK)
          /\ verdict.app.outcome = "partial" => BeginsWith(probe.text, MARK_GOOD)
          /\ BeginsWith(probe.text, MARK_HINT) => verdict.app.outcome = "inappropriate"

\* What app.py does instead: the outcome is decided by which marker occurs
\* anywhere in the reply, the check-mark marker before the partial one.
MarkerAnywhereDecides ==
    /\ ReplyJudged("scenario-reply") =>
          /\ verdict.app.outcome = "correct" <=> Contains(probe.text, <<MARK_OK>>)
          /\ verdict.app.outcome = "partial" <=>
                (~Contains(probe.text, <<MARK_OK>>) /\ Contains(probe.text, <<MARK_TRY>>))
    /\ ReplyJudged("example-reply") =>
          /\ verdict.app.outcome = "appropriate" <=> Contains(probe.text, <<MARK_OK>>)
          /\ verdict.app.outcome = "partial" <=>
                (~Contains(probe.text, <<MARK_OK>>) /\ Contains(probe.text, <<MARK_GOOD>>))

\* a reply that begins with the wrong-answer marker and quotes the check-mark
\* marker afterwards is rendered as correct
LaterMarkerWins ==
    /\ ReplyJudged("scenario-reply")
    /\ probe.text = <<MARK_AGAIN, MARK_OK>>
    /\ verdict.app.outcome = "correct"

(* C13 *)

HoldsNoMarker(content, markers) == \A i \in 1..Len(content) : content[i] \notin markers

\* the judge answered a valid submission with a text that holds no marker
UnmarkedReply(r) ==
    /\ r.remote_calls = 1 /\ r.reply.status = "ok"
    /\ \/ ValidScenarioSubmission(r)
          /\ HoldsNoMarker(r.reply.content, {MARK_OK, MARK_TRY, MARK_AGAIN})
       \/ ValidExampleCheck(r)
          /\ HoldsNoMarker(r.reply.content, {MARK_OK, MARK_GOOD, MARK_HINT})

\* C13: a judge reply without any marker does not stop the handler: it is the
\* only thing rendered, in the negative style for a scenario and the warning
\* style for an example, no error is shown, the local rule is not run, and the
\* slot is marked.
C13_UnmarkedReplyLeastFavourable ==
    UnmarkedReply(run) =>
        /\ run.errors = <<>>
        /\ USE_AI
        /\ ValidScenarioSubmission(run) =>
              /\ run.rendered = <<Feedback("feedback-negative", "incorrect", "remote")>>
              /\ run.input.scenario_id \in DOMAIN answers_submitted
        /\ ValidExampleCheck(run) =>
              /\ run.rendered = <<Feedback("warning", "inappropriate", "remote")>>
              /\ run.input.stat_key \in DOMAIN ai_examples_checked

\* an example for the median was answered by the judge with plain text
C13_Witness ==
    /\ UnmarkedReply(run)
    /\ run.input.button = "check" /\ run.input.stat_key = "median"
    /\ run.reply.content = <<"text">>
    /\ run.rendered[1].style = "warning"
    /\ "median" \in DOMAIN ai_examples_checked


(* C14 *)

SlotSubmitted(sid) == ValidScenarioSubmission(run) /\ run.input.scenario_id = sid

SlotChecked(k) == ValidExampleCheck(run) /\ run.input.stat_key = k

\* every button can be pressed with valid inputs in the next execution
AllActivitiesOpen ==
    /\ \A sid \in ScenarioIds :
          ENABLED (SubmitScenario /\ ValidScenarioSubmission(run')
                   /\ run'.input.scenario_id = sid)
    /\ \A k \in StatKeys :
          ENABLED (CheckExample /\ ValidExampleCheck(run') /\ run'.input.stat_key = k)

\* C14: after a validation error or a judge error every one of the five
\* activities can still be submitted; every valid submission, whatever failed
\* during it or before it, leaves its slot marked; a marked slot stays marked;
\* and with the five slots marked the count is 5 and is displayed as 5.  So a
\* session in which each of the five slots gets a valid submission at some
\* time reaches a completed count of 5, whatever errors occur in between.
C14_NoFailureBlocksSession ==
    /\ [] ((run.errors # <<>> \/ errors_seen) => AllActivitiesOpen)
    /\ [][ /\ \A sid \in ScenarioIds :
                SlotSubmitted(sid)' => sid \in DOMAIN answers_submitted'
           /\ \A k \in StatKeys :
                SlotChecked(k)' => k \in DOMAIN ai_examples_checked'
           /\ DOMAIN answers_submitted \subseteq DOMAIN answers_submitted'
           /\ DOMAIN ai_examples_checked \subseteq DOMAIN ai_examples_checked' ]_vars
    /\ [] ((DOMAIN answers_submitted = ScenarioIds
            /\ DOMAIN ai_examples_checked = StatKeys)
           => (CompletedCount = 5 /\ run.display.completed = 5))

\* all five slots complete in a session that saw a judge error, the last
\* execution having shown a validation error
C14_Witness ==
    /\ errors_seen
    /\ run.errors = <<"validation">>
    /\ CompletedCount = 5 /\ run.display.completed = 5


(* C15 *)

RemoteSucceeded(r) == r.remote_calls = 1 /\ r.reply.status = "ok"

\* C15: every valid submission to app.py renders exactly one classification
\* and calls the judge at most once: the judge's outcome alone when the judge
\* answered, the local rule's outcome alone when the judge failed, and the
\* local rule's outcome alone, without any call, when there is no client.
C15_ExactlyOneClassification ==
    (ValidScenarioSubmission(run) \/ ValidExampleCheck(run)) =>
        /\ Len(run.rendered) = 1
        /\ run.remote_calls \in {0, 1}
        /\ RemoteSucceeded(run) => run.rendered[1].source = "remote"
        /\ RemoteFailed(run) => run.rendered[1].source = "local"
        /\ ~client => (run.remote_calls = 0 /\ run.rendered[1].source = "local")
        /\ RemoteSucceeded(run) \/ RemoteFailed(run) \/ run.remote_calls = 0
        /\ run.remote_calls = 0 => run.rendered[1].source = "local"

\* a scenario reason holding a keyword of the local rule was judged by the
\* remote judge alone
C15_Witness ==
    /\ ValidScenarioSubmission(run)
    /\ RemoteSucceeded(run)
    /\ Contains(Lower(run.input.text), kw_isangchi)
    /\ Len(run.rendered) = 1
    /\ run.rendered[1].source = "remote"

====
